---- MODULE Spec2Model ----
(***************************************************************************)
(* Restaurant recommender backend: the FastAPI server of app/main.py       *)
(* (startup_event, recommend), the agent and task builders of              *)
(* app/agents.py and app/tasks.py, the UserProfile shape of app/models.py, *)
(* and the retrieval subsystem of app/tools.py (setup_rag, RAG_Retriever). *)
(*                                                                         *)
(* Python's None is the string "None".  Floats are integers scaled by 10   *)
(* (a score of 1.5 is 15, a rating of 4.5 is 45).                          *)
(***************************************************************************)
EXTENDS Integers, Sequences, FiniteSets, TLC

VARIABLES
    phase,           \* "boot" before startup_event has run, "serving" after
    llm,             \* main.py global llm: None or the selected model name
    retriever_tool,  \* main.py global retriever_tool: None or the RAG_Retriever
    search_tool,     \* main.py global search_tool: None or the SerperDevTool
    rag_retriever,   \* main.py global rag_retriever: None or a tool record
    startup_log,     \* what startup_event did: its RAG branch and its LLM branch
    req,             \* req[r]: the state of request r inside recommend()
    built,           \* the last result of agents.create_agents + tasks.create_tasks
    rag_db,          \* tools.py: the restaurant database setup_rag reads
    rag_result,      \* tools.py: the outcome of the last setup_rag call
    tool,            \* tools.py: a RAG_Retriever instance (its retriever field)
    run_result,      \* tools.py: the outcome of the last RAG_Retriever._run call
    data_files       \* data_loader.py: the two csv files of the data directory

vars == <<phase, llm, retriever_tool, search_tool, rag_retriever, startup_log,
          req, built, rag_db, rag_result, tool, run_result, data_files>>

serverVars == <<phase, llm, retriever_tool, search_tool, rag_retriever, startup_log>>
toolsVars == <<rag_db, rag_result, tool, run_result>>

None == "None"

\* ------------------------------------------------------------------ bounds
NumRequests == 2
MaxCategories == 2
MaxShops == 2

Requests == 1..NumRequests

Min(a, b) == IF a < b THEN a ELSE b

\* ------------------------------------------------------- app/models.py
\* A JSON value as the language model returns it: a number or a text.
Num(n) == [t |-> "num", v |-> n]
Str(s) == [t |-> "str", v |-> s]

\* The raw outputs the profile stage's language model can produce.
RawProfiles == {"json_in_range", "json_score_above_one", "json_score_not_a_number",
                "json_missing_summary"}

UserProfileFields == {"preferred_cuisines", "price_tier_preference",
                      "avg_rating_preference", "dining_environment_preference",
                      "summary"}

\* json.loads of a raw profile output.
ParseJson(raw) ==
    LET base(scores) ==
            [f \in UserProfileFields |->
                CASE f = "preferred_cuisines" -> scores
                  [] f = "price_tier_preference" -> Num(20)
                  [] f = "avg_rating_preference" -> Num(45)
                  [] f = "dining_environment_preference" -> Str("quiet")
                  [] OTHER -> Str("likes north indian food")]
    IN CASE raw = "json_in_range" ->
              base([c \in {"mughlai", "thai"} |-> IF c = "thai" THEN Num(3) ELSE Num(10)])
         [] raw = "json_score_above_one" ->
              base([c \in {"mughlai", "thai"} |-> IF c = "thai" THEN Num(3) ELSE Num(15)])
         [] raw = "json_score_not_a_number" ->
              base([c \in {"mughlai"} |-> Str("high")])
         [] OTHER ->
              [f \in UserProfileFields \ {"summary"} |->
                  base([c \in {"mughlai"} |-> Num(5)])[f]]

\* pydantic's check of one field against its declared type.
IsFloat(v) == v.t = "num"
IsInt(v) == v.t = "num" /\ v.v % 10 = 0
IsStr(v) == v.t = "str"

\* UserProfile(**obj) succeeds: every field is required (Field(...)) and has
\* its declared type; preferred_cuisines is Dict[str, float] with no range.
UserProfile(obj) ==
    /\ UserProfileFields \subseteq DOMAIN obj
    /\ \A c \in DOMAIN obj["preferred_cuisines"] : IsFloat(obj["preferred_cuisines"][c])
    /\ IsInt(obj["price_tier_preference"])
    /\ IsFloat(obj["avg_rating_preference"])
    /\ IsStr(obj["dining_environment_preference"])
    /\ IsStr(obj["summary"])

\* RecommendationRequest.visit_history: Optional[List[Dict]] = None.  An
\* optional list is a record: Python's None, or the list's items.
NoneList == [is_none |-> TRUE, items |-> <<>>]
List(s) == [is_none |-> FALSE, items |-> s]
OwnHistory == <<"visit: Karim's">>
RequestHistories == {NoneList, List(<<>>), List(OwnHistory)}
Locations == {"Delhi"}
RecommendationRequest == [visit_history : RequestHistories, location : Locations]

\* RestaurantRecommendation(recommendations: str, crew_log: str).
RestaurantRecommendation(recommendations, crew_log) ==
    [status |-> 200, recommendations |-> recommendations, crew_log |-> crew_log,
     detail |-> None, message |-> None]

\* ----------------------------------------------------- app/data_loader.py
DefaultHistory == <<"review: Bukhara", "review: MTR">>

\* The data directory: whether review-user.csv and restaurant-item.csv both
\* exist, and whether pandas reads and maps them without an exception.
DataFiles == {[exist |-> FALSE, readable |-> FALSE],
              [exist |-> TRUE, readable |-> FALSE],
              [exist |-> TRUE, readable |-> TRUE]}
ReadableFiles == [exist |-> TRUE, readable |-> TRUE]

\* What a call of load_default_history() ends in: a list, or an exception.
HistoryReturned(records) == [raised |-> FALSE, records |-> records]
HistoryRaised == [raised |-> TRUE, records |-> <<>>]

\* load_default_history(): [] when a data file is missing, [] when any
\* loading step throws (the function's own try/except), else the records.
load_default_history(files) ==
    IF ~files.exist THEN HistoryReturned(<<>>)
    ELSE IF ~files.readable THEN HistoryReturned(<<>>)
    ELSE HistoryReturned(DefaultHistory)

\* -------------------------------------------------------- app/agents.py
\* config/agent.yaml as yaml.safe_load returns it: the keys it defines.
AgentConfig == {"user_profile_agent", "coarse_RAG_matcher",
                "restaurant_recommendation_agent", "food_trend_agent"}

Agent(role, tools, llm_) == [role |-> role, tools |-> tools, llm |-> llm_]
NoAgent == Agent(None, <<>>, None)

\* A RAG_Retriever tool object (tools.py) with its injected retriever, or None.
NoRetriever == [is_none |-> TRUE, documents |-> <<>>, k |-> 0]
NoTool == [name |-> None, retriever |-> NoRetriever]
RAG_Retriever(retriever) == [name |-> "RAG Retriever", retriever |-> retriever]

create_agents(llm_, tools_map) ==
    LET tools == IF tools_map.retriever_tool # NoTool
                 THEN <<tools_map.retriever_tool.name>> ELSE <<>>
    IN [user_profile_builder |-> Agent("user_profile_agent", <<>>, llm_),
        coarse_RAG_matcher |-> Agent("coarse_RAG_matcher", tools, llm_),
        restaurant_recommendation_expert |->
            Agent("restaurant_recommendation_agent", <<>>, llm_),
        food_trend_researcher |->
            IF "food_trend_agent" \in AgentConfig /\ tools_map.search_tool # None
            THEN Agent("food_trend_agent", <<tools_map.search_tool>>, llm_)
            ELSE NoAgent]

\* --------------------------------------------------------- app/tasks.py
\* Task(description, expected_output, agent, context, output_pydantic): the
\* task is named by its key in config/tasks.yaml; context is the list of the
\* names of the tasks it is given, empty when no context is passed.
Task(name, agent, context, output_pydantic) ==
    [name |-> name, agent |-> agent.role, context |-> context,
     output_pydantic |-> output_pydantic]
NoTask == [name |-> None, agent |-> None, context |-> <<>>, output_pydantic |-> None]

\* create_tasks(agents, tasks_map): the tuple it returns, as a record.
create_tasks(agents) ==
    LET user_profile_task ==
            Task("user_profile_task", agents.user_profile_builder, <<>>, "UserProfile")
        coarse_RAG_match_task ==
            Task("coarse_RAG_match_task", agents.coarse_RAG_matcher,
                 <<user_profile_task.name>>, None)
        food_trend_task ==
            IF agents.food_trend_researcher # NoAgent
            THEN Task("food_trend_task", agents.food_trend_researcher, <<>>, None)
            ELSE NoTask
        context_tasks ==
            <<user_profile_task.name, coarse_RAG_match_task.name>>
            \o (IF food_trend_task # NoTask THEN <<food_trend_task.name>> ELSE <<>>)
    IN [user_profile_task |-> user_profile_task,
        coarse_RAG_match_task |-> coarse_RAG_match_task,
        restaurant_recommendation_task |->
            Task("restaurant_recommendation_task",
                 agents.restaurant_recommendation_expert, context_tasks, None),
        food_trend_task |-> food_trend_task]

\* The stages create_tasks selects: the tasks of its tuple that are not None.
SelectedTasks(t) ==
    <<t.user_profile_task, t.coarse_RAG_match_task>>
    \o (IF t.food_trend_task # NoTask THEN <<t.food_trend_task>> ELSE <<>>)
    \o <<t.restaurant_recommendation_task>>

\* ---------------------------------------------------------- app/main.py
HTTPException(status_code, detail, message) ==
    [status |-> status_code, recommendations |-> None, crew_log |-> None,
     detail |-> detail, message |-> message]
NoResponse == HTTPException(0, None, None)

\* One request inside recommend(): where it is, and its local variables.
IdleRequest ==
    [pc |-> "idle", visit_history |-> <<>>, default_loaded |-> FALSE,
     location |-> None, agents |-> <<>>, tasks |-> <<>>, log |-> <<>>,
     response |-> NoResponse]

\* build_crew with the recommendation task's context listing the trend task
\* before the retrieval task.
build_crew_trend_first(llm_, retriever_tool_, search_tool_) ==
    LET tools_map == [retriever_tool |-> retriever_tool_, search_tool |-> search_tool_]
        ag == create_agents(llm_, tools_map)
        user_profile_task ==
            Task("user_profile_task", ag.user_profile_builder, <<>>, "UserProfile")
        hasRag == retriever_tool_ # NoTool
        coarse_RAG_match_task ==
            Task("coarse_RAG_match_task", ag.coarse_RAG_matcher,
                 <<user_profile_task.name>>, None)
        hasTrend == ag.food_trend_researcher # NoAgent
        food_trend_task ==
            Task("food_trend_task", ag.food_trend_researcher, <<>>, None)
        context_tasks ==
            <<user_profile_task.name>>
            \o (IF hasTrend THEN <<food_trend_task.name>> ELSE <<>>)
            \o (IF hasRag THEN <<coarse_RAG_match_task.name>> ELSE <<>>)
    IN [tasks |-> <<user_profile_task>>
                  \o (IF hasRag THEN <<coarse_RAG_match_task>> ELSE <<>>)
                  \o (IF hasTrend THEN <<food_trend_task>> ELSE <<>>)
                  \o <<Task("restaurant_recommendation_task",
                            ag.restaurant_recommendation_expert, context_tasks, None)>>,
        agents |-> <<ag.user_profile_builder.role>>
                   \o (IF hasRag THEN <<ag.coarse_RAG_matcher.role>> ELSE <<>>)
                   \o (IF hasTrend THEN <<ag.food_trend_researcher.role>> ELSE <<>>)
                   \o <<ag.restaurant_recommendation_expert.role>>]

\* build_crew with the retrieval task always in the recommendation task's
\* context, selected or not, as tasks.create_tasks builds that context.
build_crew_context_unselected(llm_, retriever_tool_, search_tool_) ==
    LET tools_map == [retriever_tool |-> retriever_tool_, search_tool |-> search_tool_]
        ag == create_agents(llm_, tools_map)
        user_profile_task ==
            Task("user_profile_task", ag.user_profile_builder, <<>>, "UserProfile")
        hasRag == retriever_tool_ # NoTool
        coarse_RAG_match_task ==
            Task("coarse_RAG_match_task", ag.coarse_RAG_matcher,
                 <<user_profile_task.name>>, None)
        hasTrend == ag.food_trend_researcher # NoAgent
        food_trend_task ==
            Task("food_trend_task", ag.food_trend_researcher, <<>>, None)
        context_tasks ==
            <<user_profile_task.name, coarse_RAG_match_task.name>>
            \o (IF hasTrend THEN <<food_trend_task.name>> ELSE <<>>)
    IN [tasks |-> <<user_profile_task>>
                  \o (IF hasRag THEN <<coarse_RAG_match_task>> ELSE <<>>)
                  \o (IF hasTrend THEN <<food_trend_task>> ELSE <<>>)
                  \o <<Task("restaurant_recommendation_task",
                            ag.restaurant_recommendation_expert, context_tasks, None)>>,
        agents |-> <<ag.user_profile_builder.role>>
                   \o (IF hasRag THEN <<ag.coarse_RAG_matcher.role>> ELSE <<>>)
                   \o (IF hasTrend THEN <<ag.food_trend_researcher.role>> ELSE <<>>)
                   \o <<ag.restaurant_recommendation_expert.role>>]

\* build_crew with the retrieval task created unconditionally, as
\* tasks.create_tasks creates it.
build_crew_always_rag(llm_, retriever_tool_, search_tool_) ==
    LET tools_map == [retriever_tool |-> retriever_tool_, search_tool |-> search_tool_]
        ag == create_agents(llm_, tools_map)
        t == create_tasks(ag)
    IN [tasks |-> SelectedTasks(t),
        agents |-> <<ag.user_profile_builder.role, ag.coarse_RAG_matcher.role>>
                   \o (IF t.food_trend_task # NoTask
                       THEN <<ag.food_trend_researcher.role>> ELSE <<>>)
                   \o <<ag.restaurant_recommendation_expert.role>>]

\* recommend(), steps 2 and 3: the agents and the tasks handed to the Crew.
build_crew(llm_, retriever_tool_, search_tool_) ==
    LET tools_map == [retriever_tool |-> retriever_tool_, search_tool |-> search_tool_]
        ag == create_agents(llm_, tools_map)
        user_profile_task ==
            Task("user_profile_task", ag.user_profile_builder, <<>>, "UserProfile")
        hasRag == retriever_tool_ # NoTool
        coarse_RAG_match_task ==
            Task("coarse_RAG_match_task", ag.coarse_RAG_matcher,
                 <<user_profile_task.name>>, None)
        hasTrend == ag.food_trend_researcher # NoAgent
        food_trend_task ==
            Task("food_trend_task", ag.food_trend_researcher, <<>>, None)
        context_tasks ==
            <<user_profile_task.name>>
            \o (IF hasRag THEN <<coarse_RAG_match_task.name>> ELSE <<>>)
            \o (IF hasTrend THEN <<food_trend_task.name>> ELSE <<>>)
        restaurant_recommendation_task ==
            Task("restaurant_recommendation_task",
                 ag.restaurant_recommendation_expert, context_tasks, None)
    IN [tasks |-> <<user_profile_task>>
                  \o (IF hasRag THEN <<coarse_RAG_match_task>> ELSE <<>>)
                  \o (IF hasTrend THEN <<food_trend_task>> ELSE <<>>)
                  \o <<restaurant_recommendation_task>>,
        agents |-> <<ag.user_profile_builder.role>>
                   \o (IF hasRag THEN <<ag.coarse_RAG_matcher.role>> ELSE <<>>)
                   \o (IF hasTrend THEN <<ag.food_trend_researcher.role>> ELSE <<>>)
                   \o <<ag.restaurant_recommendation_expert.role>>]

\* recommend() without its guard on llm.
recommend_without_guard(request, llm_, retriever_tool_, search_tool_, loaded) ==
    LET use_default == request.visit_history.is_none
                       \/ request.visit_history.items = <<>>
        crew == build_crew(llm_, retriever_tool_, search_tool_)
    IN [IdleRequest EXCEPT
          !.pc = "kickoff",
          !.visit_history = IF ~use_default THEN request.visit_history.items
                            ELSE IF loaded.raised THEN <<>>
                            ELSE loaded.records,
          !.default_loaded = use_default,
          !.location = request.location,
          !.agents = crew.agents,
          !.tasks = crew.tasks]

\* recommend() with the request's history replaced by the default one only
\* when it is None: an empty list is passed on as it is.
recommend_keeps_empty_history(request, llm_, retriever_tool_, search_tool_, loaded) ==
    IF llm_ = None
    THEN [IdleRequest EXCEPT
            !.pc = "error",
            !.response = HTTPException(503, "Service not available", None)]
    ELSE
        LET use_default == request.visit_history.is_none
            crew == build_crew(llm_, retriever_tool_, search_tool_)
        IN [IdleRequest EXCEPT
              !.pc = "kickoff",
              !.visit_history = IF ~use_default THEN request.visit_history.items
                                ELSE IF loaded.raised THEN <<>>
                                ELSE loaded.records,
              !.default_loaded = use_default,
              !.location = request.location,
              !.agents = crew.agents,
              !.tasks = crew.tasks]

\* recommend() up to the creation of the Crew: the 503 guard, the default
\* visit history (loaded is what the call of load_default_history() ended
\* in; its exception is caught and gives the empty list), the agents and the
\* tasks.
recommend(request, llm_, retriever_tool_, search_tool_, loaded) ==
    IF llm_ = None
    THEN [IdleRequest EXCEPT
            !.pc = "error",
            !.response = HTTPException(503, "Service not available", None)]
    ELSE
        LET use_default == request.visit_history.is_none
                           \/ request.visit_history.items = <<>>
            crew == build_crew(llm_, retriever_tool_, search_tool_)
        IN [IdleRequest EXCEPT
              !.pc = "kickoff",
              !.visit_history = IF ~use_default THEN request.visit_history.items
                                ELSE IF loaded.raised THEN <<>>
                                ELSE loaded.records,
              !.default_loaded = use_default,
              !.location = request.location,
              !.agents = crew.agents,
              !.tasks = crew.tasks]

\* What one stage's execution can end in: its raw output, or a failure with
\* the provider's message.  The profile task carries output_pydantic, so its
\* raw output must parse into a UserProfile.
Ok(raw) == [ok |-> TRUE, text |-> raw]
Failed(msg) == [ok |-> FALSE, text |-> msg]

StageOutcomes(task) ==
    {Failed("provider error")}
    \cup (IF task.output_pydantic = "UserProfile"
          THEN {IF UserProfile(ParseJson(raw)) THEN Ok(raw)
                ELSE Failed("UserProfile validation failed") : raw \in RawProfiles}
          ELSE {Ok("output of " \o task.name)})

\* kickoff_step that records a failed task and goes on to the next one.
kickoff_step_continues(q, outcome) ==
    LET task == q.tasks[Len(q.log) + 1]
        log == Append(q.log, [stage |-> task.name, ok |-> outcome.ok,
                              text |-> outcome.text])
    IN IF Len(log) = Len(q.tasks)
       THEN [q EXCEPT !.log = log, !.pc = "done",
                      !.response = RestaurantRecommendation(
                                       outcome.text, "Crew execution completed.")]
       ELSE [q EXCEPT !.log = log]

\* crew.kickoff(inputs) under Process.sequential, one task at a time: the next
\* task of the list runs; its failure leaves kickoff as an exception, which
\* recommend() turns into the 500 response; the last task's output is the
\* result recommend() returns.
kickoff_step(q, outcome) ==
    LET task == q.tasks[Len(q.log) + 1]
        log == Append(q.log, [stage |-> task.name, ok |-> outcome.ok,
                              text |-> outcome.text])
    IN IF ~outcome.ok
       THEN [q EXCEPT !.log = log, !.pc = "error",
                      !.response = HTTPException(500, "Crew execution failed",
                                                 outcome.text)]
       ELSE IF Len(log) = Len(q.tasks)
       THEN [q EXCEPT !.log = log, !.pc = "done",
                      !.response = RestaurantRecommendation(
                                       outcome.text, "Crew execution completed.")]
       ELSE [q EXCEPT !.log = log]

\* ---------------------------------------------------------- app/tools.py
\* A shop record of db.txt is a function from the keys it has to their
\* values; get(d, key, default) is Python's dict.get.
get(d, key, default) == IF key \in DOMAIN d THEN d[key] ELSE default

Float(tenths) == [t |-> "float", v |-> tenths]
Int_(n) == [t |-> "int", v |-> n]
\* str() of a number, as an f-string formats it: 4.4 is "4.4", 0 is "0".
PyStr(x) == IF x.t = "int" THEN ToString(x.v)
            ELSE ToString(x.v \div 10) \o "." \o ToString(x.v % 10)

ShopFields == {"label", "type", "location", "rating", "price_range",
               "short_description", "signature_items", "review_titles", "reviews"}

FullShop(price_range, signature_items, review_titles, reviews) ==
    [f \in ShopFields |->
        CASE f = "label" -> "Karim's"
          [] f = "type" -> "Mughlai"
          [] f = "location" -> "Delhi"
          [] f = "rating" -> Float(44)
          [] f = "price_range" -> price_range
          [] f = "short_description" -> "Old Delhi kebabs"
          [] f = "signature_items" -> signature_items
          [] f = "review_titles" -> review_titles
          [] OTHER -> reviews]

FullShops ==
    {FullShop("$$ - $$$", <<"Seekh kebab", "Nihari">>, <<"Great", "Crowded">>, <<"Loved it">>),
     FullShop("$", <<>>, <<"Great", "Crowded">>, <<"Loved it", "Too busy", "Extra">>),
     FullShop("", <<"Naan">>, <<>>, <<>>),
     FullShop("$$$$", <<"Naan">>, <<"Great">>, <<"Loved it">>),
     FullShop("$$", <<"Naan">>, <<"Great">>, <<>>)}

Restrict(shop, keys) == [f \in keys |-> shop[f]]

\* Every shop record with any subset of its fields missing.
Shops == {Restrict(shop, keys) : shop \in FullShops, keys \in SUBSET ShopFields}

\* The shops of the databases that have several categories and records.
PoolShops == {FullShop("$$ - $$$", <<"Seekh kebab", "Nihari">>, <<"Great", "Crowded">>,
                       <<"Loved it">>),
              Restrict(FullShop("", <<>>, <<>>, <<>>), {})}

RECURSIVE SeqsUpTo(_, _)
SeqsUpTo(S, n) ==
    IF n = 0 THEN {<<>>}
    ELSE LET shorter == SeqsUpTo(S, n - 1)
         IN shorter \cup {Append(q, x) : q \in {t \in shorter : Len(t) = n - 1}, x \in S}

CategoryNames == <<"restaurants", "cafes", "bakeries", "bars", "dhabas">>

\* json.load(db.txt): a dict, here the sequence of its (key, records) items
\* in insertion order.
Databases ==
    {<<[source |-> "restaurants", shops |-> <<shop>>]>> : shop \in Shops}
    \cup UNION {
        {[i \in 1..n |-> [source |-> CategoryNames[i], shops |-> lists[i]]] :
            lists \in [1..n -> SeqsUpTo(PoolShops, MaxShops)]} : n \in 0..MaxCategories}

\* The db.txt the server starts with; startup_event's setup_rag call never
\* gets as far as reading it.
StartupDatabase ==
    <<[source |-> "restaurants",
       shops |-> <<FullShop("$$ - $$$", <<"Seekh kebab", "Nihari">>,
                            <<"Great", "Crowded">>, <<"Loved it">>)>>]>>

\* The database setup_rag uses when db.txt does not exist.
EmptyDB == <<[source |-> "restaurants", shops |-> <<>>],
             [source |-> "cafes", shops |-> <<>>],
             [source |-> "bakeries", shops |-> <<>>]>>

\* The loop building signature_dishes: 'Dish {i+1}: {dish}.\n' per item.
RECURSIVE signature_dishes_from(_, _)
signature_dishes_from(items, i) ==
    IF i > Len(items) THEN ""
    ELSE "Dish " \o ToString(i) \o ": " \o items[i] \o ".\n"
         \o signature_dishes_from(items, i + 1)

signature_dishes(shop) == signature_dishes_from(get(shop, "signature_items", <<>>), 1)

\* text = shop['reviews'][i] if i < len(shop.get('reviews', [])) else ""
review_text(shop, i) ==
    IF i <= Len(get(shop, "reviews", <<>>)) THEN shop["reviews"][i] ELSE ""

\* The loop building review_contents, one entry per review title.
RECURSIVE review_contents_from(_, _)
review_contents_from(shop, i) ==
    LET titles == get(shop, "review_titles", <<>>)
    IN IF i > Len(titles) THEN ""
       ELSE "Review " \o ToString(i) \o ". Title: " \o titles[i] \o ". Text: "
            \o review_text(shop, i) \o ".\n" \o review_contents_from(shop, i + 1)

\* review_contents with an entry only for the titles that have a text.
RECURSIVE review_contents_paired_from(_, _)
review_contents_paired_from(shop, i) ==
    LET titles == get(shop, "review_titles", <<>>)
    IN IF i > Min(Len(titles), Len(get(shop, "reviews", <<>>))) THEN ""
       ELSE "Review " \o ToString(i) \o ". Title: " \o titles[i] \o ". Text: "
            \o shop["reviews"][i] \o ".\n" \o review_contents_paired_from(shop, i + 1)

review_contents_only_paired(shop) == review_contents_paired_from(shop, 1)

\* review_contents with one entry per review text, the title empty when the
\* titles are fewer than the texts.
RECURSIVE review_contents_per_text_from(_, _)
review_contents_per_text_from(shop, i) ==
    LET titles == get(shop, "review_titles", <<>>)
        reviews == get(shop, "reviews", <<>>)
    IN IF i > Len(reviews) THEN ""
       ELSE "Review " \o ToString(i) \o ". Title: "
            \o (IF i <= Len(titles) THEN titles[i] ELSE "") \o ". Text: "
            \o reviews[i] \o ".\n" \o review_contents_per_text_from(shop, i + 1)

review_contents_per_text(shop) == review_contents_per_text_from(shop, 1)

review_contents(shop) == review_contents_from(shop, 1)

\* price_tier rounding the division up.
price_tier_rounds_up(price_range) ==
    IF price_range # "" THEN (Len(price_range) + 2) \div 3 ELSE 0

\* len(price_range)//3 if price_range else 0
price_tier(price_range) == IF price_range # "" THEN Len(price_range) \div 3 ELSE 0

\* The page content of one shop's document.
content(shop) ==
    LET label == get(shop, "label", "Unknown")
        stype == get(shop, "type", "Unknown")
        location == get(shop, "location", "Unknown")
        rating == get(shop, "rating", Int_(0))
        price_range == get(shop, "price_range", "")
        short_desc == get(shop, "short_description", "")
    IN "Shop name: " \o label \o ". "
       \o "Shop type: " \o stype \o ". "
       \o "Shop location: " \o location \o ". "
       \o "Shop rating: " \o PyStr(rating) \o ". "
       \o "Shop price_range: " \o ToString(price_tier(price_range)) \o ". "
       \o "Shop short description: " \o short_desc \o ". \n\n"
       \o "The following are the signature dishes. \n"
       \o signature_dishes(shop) \o "\n"
       \o "The following are the sampled reviews. \n"
       \o review_contents(shop)

Document(page_content, source, doc_id) ==
    [page_content |-> page_content,
     metadata |-> [source |-> source, id |-> doc_id],
     id |-> ToString(doc_id)]

\* build_documents with doc_id starting again at 0 in every category.
RECURSIVE build_documents_id_per_source(_, _, _, _, _)
build_documents_id_per_source(restaurant_db, s, j, doc_id, documents) ==
    IF s > Len(restaurant_db) THEN documents
    ELSE IF j > Len(restaurant_db[s].shops)
    THEN build_documents_id_per_source(restaurant_db, s + 1, 1, 0, documents)
    ELSE build_documents_id_per_source(restaurant_db, s, j + 1, doc_id + 1,
             Append(documents,
                    Document(content(restaurant_db[s].shops[j]),
                             restaurant_db[s].source, doc_id)))

\* The two nested loops of setup_rag: the documents built so far and the
\* running doc_id, from category s, record j on.
RECURSIVE build_documents(_, _, _, _, _)
build_documents(restaurant_db, s, j, doc_id, documents) ==
    IF s > Len(restaurant_db) THEN documents
    ELSE IF j > Len(restaurant_db[s].shops)
    THEN build_documents(restaurant_db, s + 1, 1, doc_id, documents)
    ELSE build_documents(restaurant_db, s, j + 1, doc_id + 1,
             Append(documents,
                    Document(content(restaurant_db[s].shops[j]),
                             restaurant_db[s].source, doc_id)))

\* A retriever object, or Python's None.
SearchK == 10
Retriever(documents) == [is_none |-> FALSE, documents |-> documents, k |-> SearchK]

Raise(error) == [raised |-> TRUE, error |-> error, retriever |-> NoRetriever]
Return(retriever) == [raised |-> FALSE, error |-> None, retriever |-> retriever]
\* The last setup_rag call: whether db.txt existed, and what the call ended in.
NotCalled == [called |-> FALSE, file_exists |-> FALSE, out |-> Raise("not called")]
Called(file_exists, out) == [called |-> TRUE, file_exists |-> file_exists, out |-> out]

\* setup_rag without its two argument checks.
setup_rag_without_argument_checks(api_key, project_id, url, db_file, file_exists, embed_ok) ==
    LET restaurant_db == IF file_exists THEN db_file ELSE EmptyDB
        documents == build_documents(restaurant_db, 1, 1, 0, <<>>)
    IN IF ~embed_ok THEN Raise("embedding failed")
       ELSE Return(Retriever(documents))

\* setup_rag(api_key, project_id, url).  db_file is the content of db.txt,
\* file_exists whether it is there, embed_ok whether the embedding service
\* and the vector store accept the documents.
setup_rag(api_key, project_id, url, db_file, file_exists, embed_ok) ==
    IF url = None THEN Raise("URL for Watsonx must be provided.")
    ELSE IF project_id = None THEN Raise("Project ID for Watsonx must be provided.")
    ELSE LET restaurant_db == IF file_exists THEN db_file ELSE EmptyDB
             documents == build_documents(restaurant_db, 1, 1, 0, <<>>)
         IN IF ~embed_ok THEN Raise("embedding failed")
            ELSE Return(Retriever(documents))

\* retriever.invoke(user_profile): the k most similar documents, in the
\* ranking's order (the ranking is the embedding service's), or an exception.
SearchResults(retriever) ==
    LET n == Min(retriever.k, Len(retriever.documents))
        docs == retriever.documents
    IN {[i \in 1..n |-> docs[i]], [i \in 1..n |-> docs[Len(docs) + 1 - i]]}

Returned(kind, entries, text) ==
    [raised |-> FALSE, kind |-> kind, entries |-> entries, text |-> text]
Raised(text) == [raised |-> TRUE, kind |-> "exception", entries |-> <<>>, text |-> text]
\* The last _run call: the search's behaviour in it, and what _run ended in.
NotRun == [called |-> FALSE, initialized |-> FALSE, throws |-> FALSE,
           out |-> Returned("not run", <<>>, None)]
Ran(initialized, throws, out) ==
    [called |-> TRUE, initialized |-> initialized, throws |-> throws, out |-> out]

\* _run without its try/except: the search's exception leaves the tool.
RAG_Retriever_run_without_try(self, user_profile, search) ==
    IF self.retriever.is_none
    THEN Returned("message", <<>>, "Retriever not initialized.")
    ELSE IF search.throws
    THEN Raised(search.error)
    ELSE Returned("dict",
                  [i \in 1..Len(search.res) |->
                      [key |-> "Recommendation " \o ToString(i),
                       value |-> search.res[i].page_content]],
                  None)

\* RAG_Retriever._run(user_profile).  self is the tool; search is what
\* retriever.invoke does: [throws, res].  The str() of the dict is kept as
\* the dict's entries, 'Recommendation i' -> page content, in order.
RAG_Retriever_run(self, user_profile, search) ==
    IF self.retriever.is_none
    THEN Returned("message", <<>>, "Retriever not initialized.")
    ELSE IF search.throws
    THEN Returned("message", <<>>, "Error using RAG tool: " \o search.error)
    ELSE Returned("dict",
                  [i \in 1..Len(search.res) |->
                      [key |-> "Recommendation " \o ToString(i),
                       value |-> search.res[i].page_content]],
                  None)

\* ------------------------------------------------- app/main.py, startup
\* The values an API key's environment variable can have.
KeyValues == {None, "", "your_api_key_here", "AIza-key"}
StartsWithYour(k) == k = "your_api_key_here"
Configured(k) == k # None /\ k # "" /\ ~StartsWithYour(k)

\* The model names genai.list_models() can report, in its order, and the
\* substrings startup_event looks for in them.
ListedModels == <<"gemini-2.0-flash-lite", "gemini-pro", "gemini-1.5-flash">>
FallbackModels == <<"gemini-1.5-flash", "gemini-2.0-flash-exp", "gemini-pro">>
HasFlash(m) == m \in {"gemini-2.0-flash-lite", "gemini-1.5-flash", "gemini-2.0-flash-exp"}
HasLite(m) == m = "gemini-2.0-flash-lite"
HasPro(m) == m = "gemini-pro"
AllModels == {ListedModels[i] : i \in 1..Len(ListedModels)}
             \cup {FallbackModels[i] : i \in 1..Len(FallbackModels)}

RECURSIVE Filter(_, _)
Filter(seq, keep) ==
    IF seq = <<>> THEN <<>>
    ELSE (IF Head(seq) \in keep THEN <<Head(seq)>> ELSE <<>>) \o Filter(Tail(seq), keep)

Elems(seq) == {seq[i] : i \in 1..Len(seq)}

\* The candidate list: flash models that are not lite, then pro models, then
\* the rest; the fallback list when list_models() throws.
select_candidates(list_ok, available) ==
    IF ~list_ok THEN FallbackModels
    ELSE LET flash == Filter(available, {m \in Elems(available) : HasFlash(m) /\ ~HasLite(m)})
             pro == Filter(available, {m \in Elems(available) :
                                          HasPro(m) /\ m \notin Elems(flash)})
             rest == Filter(available, {m \in Elems(available) :
                                          m \notin Elems(flash) /\ m \notin Elems(pro)})
         IN flash \o pro \o rest

\* The loop over the candidates: the first one LLM(...) accepts, else None.
RECURSIVE first_working(_, _)
first_working(candidates, working) ==
    IF candidates = <<>> THEN None
    ELSE IF Head(candidates) \in working THEN Head(candidates)
    ELSE first_working(Tail(candidates), working)

\* The Serper branch: the tool when the key is configured and SerperDevTool()
\* does not throw; search_tool keeps its initial None otherwise.
startup_search(serper_api_key, serper_ok) ==
    IF Configured(serper_api_key) /\ serper_ok THEN "SerperDevTool" ELSE None

\* startup_rag without its except clause: setup_rag's exception leaves
\* startup_event.
startup_rag_propagates(gemini_apikey, rag) ==
    IF gemini_apikey = None
    THEN [retriever_tool |-> NoTool, rag_retriever |-> NoTool,
          outcome |-> "skipped", propagated |-> FALSE]
    ELSE IF rag.raised
    THEN [retriever_tool |-> NoTool, rag_retriever |-> NoTool,
          outcome |-> "raised", propagated |-> TRUE]
    ELSE IF ~rag.retriever.is_none
    THEN [retriever_tool |-> RAG_Retriever(rag.retriever),
          rag_retriever |-> RAG_Retriever(rag.retriever),
          outcome |-> "complete", propagated |-> FALSE]
    ELSE [retriever_tool |-> NoTool, rag_retriever |-> NoTool,
          outcome |-> "none", propagated |-> FALSE]

\* The RAG branch: rag is what setup_rag(api_key=gemini_apikey) ended in.
\* propagated says whether an exception leaves the branch.
startup_rag(gemini_apikey, rag) ==
    IF gemini_apikey = None
    THEN [retriever_tool |-> NoTool, rag_retriever |-> NoTool,
          outcome |-> "skipped", propagated |-> FALSE]
    ELSE IF rag.raised
    THEN [retriever_tool |-> NoTool, rag_retriever |-> NoTool,
          outcome |-> "raised", propagated |-> FALSE]
    ELSE IF ~rag.retriever.is_none
    THEN [retriever_tool |-> RAG_Retriever(rag.retriever),
          rag_retriever |-> RAG_Retriever(rag.retriever),
          outcome |-> "complete", propagated |-> FALSE]
    ELSE [retriever_tool |-> NoTool, rag_retriever |-> NoTool,
          outcome |-> "none", propagated |-> FALSE]

\* The LLM branch.
startup_llm(gemini_apikey, list_ok, available, working) ==
    IF gemini_apikey # None
    THEN first_working(select_candidates(list_ok, available), working)
    ELSE None

\* startup_event(): the globals it leaves.  env is what the environment
\* holds and does: the two keys, whether SerperDevTool() works, db.txt, the
\* embedding service, list_models() and the models LLM(...) accepts.
startup_event(env) ==
    LET gemini_apikey == IF Configured(env.gemini_key) THEN env.gemini_key ELSE None
        rag == startup_rag(gemini_apikey,
                   setup_rag(gemini_apikey, None, None, env.db_file,
                             env.file_exists, env.embed_ok))
    IN IF rag.propagated
       THEN [phase |-> "crashed",
             search_tool |-> startup_search(env.serper_key, env.serper_ok),
             retriever_tool |-> rag.retriever_tool, rag_retriever |-> rag.rag_retriever,
             llm |-> None, log |-> [rag |-> rag.outcome, llm |-> "not reached"]]
       ELSE [phase |-> "serving",
             search_tool |-> startup_search(env.serper_key, env.serper_ok),
             retriever_tool |-> rag.retriever_tool, rag_retriever |-> rag.rag_retriever,
             llm |-> startup_llm(gemini_apikey, env.list_ok, env.available, env.working),
             log |-> [rag |-> rag.outcome,
                      llm |-> IF gemini_apikey # None THEN "ran" ELSE "skipped"]]

\* ------------------------------------------------------------- actions
NotBuilt == <<>>
NoLog == [rag |-> "not run", llm |-> "not run"]

Startup ==
    /\ phase = "boot"
    /\ \E gemini_key \in KeyValues, serper_key \in KeyValues,
          serper_ok \in BOOLEAN, file_exists \in BOOLEAN, embed_ok \in BOOLEAN,
          list_ok \in BOOLEAN, keep \in SUBSET Elems(ListedModels),
          working \in SUBSET AllModels :
          LET g == startup_event(
                       [gemini_key |-> gemini_key, serper_key |-> serper_key,
                        serper_ok |-> serper_ok, db_file |-> rag_db,
                        file_exists |-> file_exists, embed_ok |-> embed_ok,
                        list_ok |-> list_ok, available |-> Filter(ListedModels, keep),
                        working |-> working])
          IN /\ phase' = g.phase
             /\ search_tool' = g.search_tool
             /\ retriever_tool' = g.retriever_tool
             /\ rag_retriever' = g.rag_retriever
             /\ llm' = g.llm
             /\ startup_log' = g.log
    /\ UNCHANGED <<req, built, toolsVars, data_files>>

\* Recommend with the handler giving up the retriever tool (it assigns the
\* global retriever_tool) once it has built its crew.
Recommend_resets_retriever(r) ==
    /\ phase = "serving"
    /\ req[r].pc = "idle"
    /\ \E request \in RecommendationRequest :
          req' = [req EXCEPT ![r] =
                     recommend(request, llm, retriever_tool, search_tool,
                               load_default_history(data_files))]
    /\ retriever_tool' = NoTool
    /\ UNCHANGED <<phase, llm, search_tool, rag_retriever, startup_log, built,
                   toolsVars, data_files>>

\* POST /recommend arrives: recommend() runs up to crew.kickoff.
Recommend(r) ==
    /\ phase = "serving"
    /\ req[r].pc = "idle"
    /\ \E request \in RecommendationRequest :
          req' = [req EXCEPT ![r] =
                     recommend(request, llm, retriever_tool, search_tool,
                               load_default_history(data_files))]
    /\ UNCHANGED <<serverVars, built, toolsVars, data_files>>

\* crew.kickoff runs the request's next task.
KickoffStep(r) ==
    /\ req[r].pc = "kickoff"
    /\ \E outcome \in StageOutcomes(req[r].tasks[Len(req[r].log) + 1]) :
          req' = [req EXCEPT ![r] = kickoff_step(req[r], outcome)]
    /\ UNCHANGED <<serverVars, built, toolsVars, data_files>>

\* The builders of agents.py and tasks.py applied to the server's capabilities.
CreateTasks ==
    /\ phase = "serving"
    /\ built = NotBuilt
    /\ built' = SelectedTasks(create_tasks(create_agents(llm,
                    [retriever_tool |-> retriever_tool, search_tool |-> search_tool])))
    /\ UNCHANGED <<serverVars, req, toolsVars, data_files>>

\* setup_rag is called with some arguments in some environment.
SetupRag ==
    /\ rag_result = NotCalled
    /\ \E api_key \in {None, "AIza-key"}, project_id \in {None, "project"},
          url \in {None, "https://watsonx"}, file_exists \in BOOLEAN, embed_ok \in BOOLEAN :
          rag_result' = Called(file_exists,
                               setup_rag(api_key, project_id, url, rag_db,
                                         file_exists, embed_ok))
    /\ UNCHANGED <<serverVars, req, built, rag_db, tool, run_result, data_files>>

\* The retriever setup_rag returned is injected into a RAG_Retriever tool.
InjectRetriever ==
    /\ rag_result.called
    /\ ~rag_result.out.raised
    /\ tool = RAG_Retriever(NoRetriever)
    /\ tool' = RAG_Retriever(rag_result.out.retriever)
    /\ UNCHANGED <<serverVars, req, built, rag_db, rag_result, run_result, data_files>>

\* An agent calls the tool; the search answers or throws.
RunTool ==
    /\ \E user_profile \in RawProfiles, throws \in BOOLEAN,
          res \in SearchResults(tool.retriever) :
          run_result' = Ran(~tool.retriever.is_none, throws,
                            RAG_Retriever_run(tool, user_profile,
                                [throws |-> throws, error |-> "connection refused",
                                 res |-> res]))
    /\ UNCHANGED <<serverVars, req, built, rag_db, rag_result, tool, data_files>>

\* ------------------------------------------------------- specifications
InitServer ==
    /\ llm = None
    /\ retriever_tool = NoTool
    /\ search_tool = None
    /\ rag_retriever = NoTool
    /\ startup_log = NoLog
InitRequests ==
    /\ req = [r \in Requests |-> IdleRequest]
    /\ built = NotBuilt
InitToolsIdle ==
    /\ rag_result = NotCalled
    /\ tool = RAG_Retriever(NoRetriever)
    /\ run_result = NotRun

\* The server as main.py wires it: startup_event, then requests.
Init ==
    /\ phase = "boot"
    /\ InitServer
    /\ InitRequests
    /\ rag_db = StartupDatabase
    /\ InitToolsIdle
    /\ data_files \in DataFiles

Next ==
    \/ Startup
    \/ \E r \in Requests : Recommend(r)
    \/ \E r \in Requests : KickoffStep(r)

Spec == Init /\ [][Next]_vars

\* recommend() and the task builders under every set of capabilities.
InitPipeline ==
    /\ phase = "serving"
    /\ llm \in {None, "gemini-1.5-flash"}
    /\ retriever_tool \in {NoTool, RAG_Retriever(Retriever(<<>>))}
    /\ search_tool \in {None, "SerperDevTool"}
    /\ rag_retriever = retriever_tool
    /\ startup_log = NoLog
    /\ InitRequests
    /\ rag_db = EmptyDB
    /\ InitToolsIdle
    /\ data_files \in DataFiles

NextPipeline ==
    \/ \E r \in Requests : Recommend(r)
    \/ \E r \in Requests : KickoffStep(r)

SpecPipeline == InitPipeline /\ [][NextPipeline]_vars

\* The two graph builders, recommend() up to the creation of the Crew and
\* create_tasks(), under every set of capabilities.
InitBuilders ==
    /\ phase = "serving"
    /\ llm \in {None} \cup AllModels
    /\ retriever_tool \in
          {NoTool} \cup {RAG_Retriever(Retriever(build_documents(
                              <<[source |-> "restaurants", shops |-> shops]>>,
                              1, 1, 0, <<>>))) :
                            shops \in SeqsUpTo(PoolShops, MaxShops)}
    /\ search_tool \in {None, "SerperDevTool"}
    /\ rag_retriever = retriever_tool
    /\ startup_log = NoLog
    /\ InitRequests
    /\ rag_db = EmptyDB
    /\ InitToolsIdle
    /\ data_files \in DataFiles

NextBuilders ==
    \/ \E r \in Requests : Recommend(r)
    \/ CreateTasks

SpecBuilders == InitBuilders /\ [][NextBuilders]_vars

\* tools.py: setup_rag over every database, and the tool built on its result.
InitTools ==
    /\ phase = "boot"
    /\ InitServer
    /\ InitRequests
    /\ rag_db \in Databases
    /\ InitToolsIdle
    /\ data_files = ReadableFiles

NextTools ==
    \/ SetupRag
    \/ InjectRetriever
    \/ RunTool

SpecTools == InitTools /\ [][NextTools]_vars
\* --------------------------------------------------------------- claims
Names(tasks) == [i \in 1..Len(tasks) |-> tasks[i].name]
HasTask(tasks, name) == \E i \in 1..Len(tasks) : tasks[i].name = name

\* recommend() has built the request's crew.
CrewBuilt(q) == q.tasks # <<>>

\* The stages with no context dependencies, and those no stage depends on.
Roots(tasks) == {i \in 1..Len(tasks) : tasks[i].context = <<>>}
Terminals(tasks) ==
    {i \in 1..Len(tasks) :
        \A j \in 1..Len(tasks) : tasks[i].name \notin Elems(tasks[j].context)}

\* The terminal stage of C1: the recommendation task, last in the list, the
\* only stage nothing depends on, its context the profile task, then the
\* retrieval task if selected, then the trend task if selected.
TerminalStageAsClaimed(tasks) ==
    /\ Terminals(tasks) = {Len(tasks)}
    /\ tasks[Len(tasks)].name = "restaurant_recommendation_task"
    /\ tasks[Len(tasks)].context =
          <<"user_profile_task">>
          \o (IF HasTask(tasks, "coarse_RAG_match_task")
              THEN <<"coarse_RAG_match_task">> ELSE <<>>)
          \o (IF HasTask(tasks, "food_trend_task") THEN <<"food_trend_task">> ELSE <<>>)

C2_UnavailableBeforeAnyStage ==
    (phase = "serving" /\ llm = None) =>
        \A r \in Requests :
            req[r].pc # "idle" =>
                /\ req[r].pc = "error"
                /\ req[r].response = HTTPException(503, "Service not available", None)
                /\ ~req[r].default_loaded
                /\ req[r].visit_history = <<>>
                /\ req[r].agents = <<>>
                /\ req[r].tasks = <<>>
                /\ req[r].log = <<>>

C2_Witness ==
    /\ phase = "serving"
    /\ llm = None
    /\ startup_log.llm = "ran"
    /\ \E r \in Requests : req[r].response.status = 503

AvailableCount == (IF retriever_tool # NoTool THEN 1 ELSE 0)
                  + (IF search_tool # None THEN 1 ELSE 0)

\* C3: with the LLM present a run has 2 + (number of available optional
\* capabilities) stages, the profile and the recommendation task alone when
\* there is none; a run has more stages to execute while it is in kickoff,
\* ends in an error only when a stage failed, and when every stage has
\* succeeded it has returned the last stage's output with status 200.
C3_StageCount ==
    \A r \in Requests :
        CrewBuilt(req[r]) =>
            LET q == req[r]
            IN /\ Len(q.tasks) = 2 + AvailableCount
               /\ AvailableCount = 0 =>
                     Names(q.tasks) = <<"user_profile_task",
                                        "restaurant_recommendation_task">>
               /\ q.pc \in {"kickoff", "done", "error"}
               /\ q.pc = "kickoff" => Len(q.log) < Len(q.tasks)
               /\ q.pc = "error" => (q.log # <<>> /\ ~q.log[Len(q.log)].ok)
               /\ (Len(q.log) = Len(q.tasks) /\ \A i \in 1..Len(q.log) : q.log[i].ok) =>
                     /\ q.pc = "done"
                     /\ q.response = RestaurantRecommendation(
                                         q.log[Len(q.log)].text,
                                         "Crew execution completed.")

C3_Witness ==
    \E r \in Requests :
        /\ AvailableCount = 0
        /\ req[r].pc = "done"
        /\ Len(req[r].log) = 2
        /\ req[r].response.status = 200

\* C4 as stated, for both builders: the retrieval stage is selected iff the
\* retriever tool is present and the trend stage iff the search tool is
\* present, in the task list of recommend() and in the tasks of create_tasks().
C4_SelectedIffCapability ==
    /\ \A r \in Requests :
          CrewBuilt(req[r]) =>
              /\ HasTask(req[r].tasks, "coarse_RAG_match_task") <=> retriever_tool # NoTool
              /\ HasTask(req[r].tasks, "food_trend_task") <=> search_tool # None
    /\ built # NotBuilt =>
          /\ HasTask(built, "coarse_RAG_match_task") <=> retriever_tool # NoTool
          /\ HasTask(built, "food_trend_task") <=> search_tool # None

\* The part of C4 about recommend() alone.
C4_RecommendSelectsIffCapability ==
    \A r \in Requests :
        CrewBuilt(req[r]) =>
            /\ HasTask(req[r].tasks, "coarse_RAG_match_task") <=> retriever_tool # NoTool
            /\ HasTask(req[r].tasks, "food_trend_task") <=> search_tool # None

\* C5: a failed stage is the last thing its run did: the run is in error,
\* the stages after it were not executed, the response is the 500 error
\* carrying the failure's message and no recommendation, and no stage was
\* executed twice.
C5_FailureAborts ==
    \A r \in Requests :
        LET q == req[r]
        IN /\ Len(q.log) <= Len(q.tasks)
           /\ \A i \in 1..Len(q.log) : q.log[i].stage = q.tasks[i].name
           /\ \A i, j \in 1..Len(q.log) : i # j => q.log[i].stage # q.log[j].stage
           /\ \A i \in 1..Len(q.log) :
                 ~q.log[i].ok =>
                     /\ i = Len(q.log)
                     /\ q.pc = "error"
                     /\ q.response = HTTPException(500, "Crew execution failed",
                                                   q.log[i].text)
                     /\ q.response.recommendations = None

C5_Witness ==
    \E r \in Requests :
        /\ req[r].pc = "error"
        /\ Len(req[r].tasks) = 4
        /\ Len(req[r].log) = 2
        /\ ~req[r].log[2].ok
        /\ req[r].response.status = 500
\* C6 as stated: the profile stage never outputs a profile with a
\* preferred_cuisines value outside [0,1] (0..10 in tenths), because the
\* UserProfile validation rejects it.
C6_ScoresInUnitInterval ==
    \A r \in Requests :
        \A i \in 1..Len(req[r].log) :
            (req[r].log[i].stage = "user_profile_task" /\ req[r].log[i].ok) =>
                LET scores == ParseJson(req[r].log[i].text)["preferred_cuisines"]
                IN \A c \in DOMAIN scores : scores[c].v >= 0 /\ scores[c].v <= 10

\* The validation that does hold of the profile stage's output: the shape.
C6_ProfileOutputHasShape ==
    \A r \in Requests :
        \A i \in 1..Len(req[r].log) :
            (req[r].log[i].stage = "user_profile_task" /\ req[r].log[i].ok) =>
                UserProfile(ParseJson(req[r].log[i].text))

\* C7: when setup_rag fails at startup the failure stays inside the RAG
\* branch of startup_event: startup does not crash, the LLM branch runs,
\* retriever_tool and rag_retriever are None, and no request's task list has
\* the retrieval task.
C7_RagFailureIsContained ==
    /\ phase # "crashed"
    /\ (phase = "serving" /\ startup_log.rag \in {"raised", "none"}) =>
          /\ retriever_tool = NoTool
          /\ rag_retriever = NoTool
          /\ startup_log.llm = "ran"
          /\ \A r \in Requests : ~HasTask(req[r].tasks, "coarse_RAG_match_task")

C7_Witness ==
    /\ phase = "serving"
    /\ startup_log.rag = "raised"
    /\ llm # None
    /\ \E r \in Requests : req[r].pc = "done" /\ Len(req[r].tasks) = 3

\* The retriever is not initialized, or the search threw, in the last _run.
Unavailable == run_result.called /\ (~run_result.initialized \/ run_result.throws)

RECURSIVE Flatten(_)
Flatten(db) ==
    IF db = <<>> THEN <<>>
    ELSE [i \in 1..Len(Head(db).shops) |->
             [source |-> Head(db).source, shop |-> Head(db).shops[i]]]
         \o Flatten(Tail(db))

\* The database the last setup_rag call read, and the documents it built.
DatabaseRead == IF rag_result.file_exists THEN rag_db ELSE EmptyDB
DocumentsBuilt == rag_result.out.retriever.documents
IndexBuilt == rag_result.called /\ ~rag_result.out.raised

\* C9: the documents setup_rag builds are one per record, in category order
\* then record order; their metadata ids are 0..N-1 in that order, pairwise
\* distinct, and each document's string id is its metadata id in decimal.
C9_IdsAreDense ==
    IndexBuilt =>
        LET records == Flatten(DatabaseRead)
            docs == DocumentsBuilt
        IN /\ Len(docs) = Len(records)
           /\ \A i \in 1..Len(docs) :
                 /\ docs[i].metadata.id = i - 1
                 /\ docs[i].id = ToString(i - 1)
                 /\ docs[i].metadata.source = records[i].source
                 /\ docs[i].page_content = content(records[i].shop)
           /\ \A i, j \in 1..Len(docs) :
                 i # j => (docs[i].id # docs[j].id
                           /\ docs[i].metadata.id # docs[j].metadata.id)
           /\ {docs[i].metadata.id : i \in 1..Len(docs)} = 0..(Len(records) - 1)

C9_Witness ==
    /\ IndexBuilt
    /\ rag_result.file_exists
    /\ Len(rag_db) = 2
    /\ Len(rag_db[1].shops) = 2
    /\ Len(rag_db[2].shops) = 2
    /\ Len(DocumentsBuilt) = 4

\* The header of a document, with the defaults the claim C10 gives.
OrElse(shop, key, default) == IF key \in DOMAIN shop THEN shop[key] ELSE default
ExpectedHeader(shop) ==
    "Shop name: " \o OrElse(shop, "label", "Unknown") \o ". "
    \o "Shop type: " \o OrElse(shop, "type", "Unknown") \o ". "
    \o "Shop location: " \o OrElse(shop, "location", "Unknown") \o ". "
    \o "Shop rating: "
    \o (IF "rating" \in DOMAIN shop THEN PyStr(shop["rating"]) ELSE "0") \o ". "
    \o "Shop price_range: "
    \o ToString(Len(OrElse(shop, "price_range", "")) \div 3) \o ". "
    \o "Shop short description: " \o OrElse(shop, "short_description", "") \o ". \n\n"

\* One review entry per title, each with an empty text.
RECURSIVE TitlesWithoutText(_, _)
TitlesWithoutText(titles, i) ==
    IF i > Len(titles) THEN ""
    ELSE "Review " \o ToString(i) \o ". Title: " \o titles[i] \o ". Text: .\n"
         \o TitlesWithoutText(titles, i + 1)

ExpectedDocument(shop, dish_section, review_section) ==
    ExpectedHeader(shop)
    \o "The following are the signature dishes. \n" \o dish_section \o "\n"
    \o "The following are the sampled reviews. \n" \o review_section

LacksDishesAndReviews(shop) ==
    "signature_items" \notin DOMAIN shop /\ "reviews" \notin DOMAIN shop

\* The only failures of setup_rag are its two argument checks and the
\* embedding service: building the documents raises nothing.
BuildNeverRaises ==
    (rag_result.called /\ rag_result.out.raised) =>
        rag_result.out.error \in {"URL for Watsonx must be provided.",
                                  "Project ID for Watsonx must be provided.",
                                  "embedding failed"}

\* C10 as stated: every document has the header with the claim's defaults
\* for the missing fields, and the document of a record without
\* signature_items and reviews has an empty dish section and an empty review
\* section.
C10_EmptySectionsWhenMissing ==
    /\ BuildNeverRaises
    /\ IndexBuilt =>
          \A i \in 1..Len(DocumentsBuilt) :
              LET shop == Flatten(DatabaseRead)[i].shop
              IN DocumentsBuilt[i].page_content =
                    IF LacksDishesAndReviews(shop)
                    THEN ExpectedDocument(shop, "", "")
                    ELSE ExpectedDocument(shop, signature_dishes(shop),
                                          review_contents(shop))

\* C10 amended: as stated, except that the review section of a record
\* without signature_items and reviews is empty only when the record has no
\* review titles: it has one entry per review title, each with an empty text.
C10_TitlesKeepTheirEntries ==
    /\ BuildNeverRaises
    /\ IndexBuilt =>
          \A i \in 1..Len(DocumentsBuilt) :
              LET shop == Flatten(DatabaseRead)[i].shop
              IN DocumentsBuilt[i].page_content =
                    IF LacksDishesAndReviews(shop)
                    THEN ExpectedDocument(shop, "",
                             TitlesWithoutText(OrElse(shop, "review_titles", <<>>), 1))
                    ELSE ExpectedDocument(shop, signature_dishes(shop),
                                          review_contents(shop))

C10_Witness ==
    /\ IndexBuilt
    /\ rag_result.file_exists
    /\ Len(DocumentsBuilt) = 1
    /\ LacksDishesAndReviews(rag_db[1].shops[1])
    /\ DOMAIN rag_db[1].shops[1] = {"review_titles", "rating"}
    /\ Len(rag_db[1].shops[1]["review_titles"]) = 2

\* The stage set a request selects when it runs alone on the server's
\* capabilities.
StagesWhenAlone == Names(build_crew(llm, retriever_tool, search_tool).tasks)

\* A step of the server after startup leaves the shared capabilities alone
\* and changes the state of at most one request.
RequestStepIsIsolated ==
    phase = "serving" =>
        /\ UNCHANGED <<llm, retriever_tool, search_tool, rag_retriever>>
        /\ \A r, s \in Requests : (r # s /\ req'[r] # req[r]) => req'[s] = req[s]

\* C11: after startup no step of a request assigns llm, retriever_tool,
\* search_tool or the tool's retriever, a step of one request leaves every
\* other request's agents, tasks and log as they were, and in every
\* interleaving each request's task list is the one it selects when run alone
\* on the capabilities startup left.
C11_RequestsAreIsolated ==
    /\ [][RequestStepIsIsolated]_vars
    /\ [](\A r \in Requests :
             CrewBuilt(req[r]) =>
                 /\ Names(req[r].tasks) = StagesWhenAlone
                 /\ Len(req[r].agents) = Len(req[r].tasks))

\* Two requests are in the middle of their runs at the same time.
C11_Witness ==
    /\ retriever_tool # NoTool
    /\ search_tool # None
    /\ \E r, s \in Requests :
          /\ r # s
          /\ req[r].pc = "kickoff" /\ Len(req[r].log) = 1
          /\ req[s].pc = "kickoff" /\ Len(req[s].log) = 2

\* The order C12 gives the stages.
StageOrder == <<"user_profile_task", "coarse_RAG_match_task", "food_trend_task",
                "restaurant_recommendation_task">>

\* A step executes at most one stage of a run, the next one of its list: the
\* log of every request stays as it was or grows by one entry at its end.
OneStageAtATime ==
    \A r \in Requests :
        \/ req'[r].log = req[r].log
        \/ /\ Len(req'[r].log) = Len(req[r].log) + 1
           /\ SubSeq(req'[r].log, 1, Len(req[r].log)) = req[r].log
           /\ req'[r].log[Len(req'[r].log)].stage = req[r].tasks[Len(req[r].log) + 1].name

\* C12: the task list is in the order profile, retrieval, trend,
\* recommendation without repetition; the stages executed so far are the
\* first stages of the list, in its order, one per step; every stage named
\* in a stage's context is in the list strictly before that stage; and when
\* a stage was started, every stage of its context had produced its output.
C12_DependenciesPrecede ==
    /\ [][OneStageAtATime]_vars
    /\ [](\A r \in Requests :
             CrewBuilt(req[r]) =>
                 LET tasks == req[r].tasks
                     log == req[r].log
                 IN /\ Names(tasks) = Filter(StageOrder, Elems(Names(tasks)))
                    /\ Len(log) <= Len(tasks)
                    /\ \A i \in 1..Len(log) : log[i].stage = tasks[i].name
                    /\ \A i \in 1..Len(tasks) :
                          \A c \in Elems(tasks[i].context) :
                              \E j \in 1..(i - 1) : tasks[j].name = c
                    /\ \A i \in 1..Len(log) :
                          \A c \in Elems(tasks[i].context) :
                              \E j \in 1..(i - 1) : log[j].stage = c /\ log[j].ok)

\* A run of all four stages has completed.
C12_Witness ==
    \E r \in Requests :
        /\ req[r].pc = "done"
        /\ Names(req[r].tasks) = StageOrder
        /\ Len(req[r].log) = 4
        /\ \A i \in 1..4 : req[r].log[i].ok

\* The review entries C13 describes: one per review title, numbered from 1
\* in title order, with the text at the same position or the empty string.
ReviewEntries(shop) ==
    LET titles == OrElse(shop, "review_titles", <<>>)
        reviews == OrElse(shop, "reviews", <<>>)
    IN [i \in 1..Len(titles) |->
           [number |-> i, title |-> titles[i],
            text |-> IF i <= Len(reviews) THEN reviews[i] ELSE ""]]

\* The entries as the document's review section writes them.
RECURSIVE RenderEntries(_)
RenderEntries(entries) ==
    IF entries = <<>> THEN ""
    ELSE "Review " \o ToString(Head(entries).number) \o ". Title: "
         \o Head(entries).title \o ". Text: " \o Head(entries).text \o ".\n"
         \o RenderEntries(Tail(entries))

\* C13: the review section of every built document is the entries of
\* ReviewEntries, one per review title, whatever the length of reviews
\* (shorter than the titles, longer, or absent), and building the documents
\* raises nothing.
C13_OneEntryPerTitle ==
    /\ BuildNeverRaises
    /\ IndexBuilt =>
          \A i \in 1..Len(DocumentsBuilt) :
              LET shop == Flatten(DatabaseRead)[i].shop
              IN /\ Len(ReviewEntries(shop)) = Len(OrElse(shop, "review_titles", <<>>))
                 /\ DocumentsBuilt[i].page_content =
                       ExpectedDocument(shop, signature_dishes(shop),
                                        RenderEntries(ReviewEntries(shop)))

\* A document was built from a record with two review titles and one text.
C13_Witness ==
    /\ IndexBuilt
    /\ rag_result.file_exists
    /\ Len(DocumentsBuilt) = 1
    /\ {"review_titles", "reviews"} \subseteq DOMAIN rag_db[1].shops[1]
    /\ Len(rag_db[1].shops[1]["review_titles"]) = 2
    /\ Len(rag_db[1].shops[1]["reviews"]) = 1

\* The price-range strings of the database records.
PriceRangesRead == {shop["price_range"] : shop \in FullShops}

\* The tiers C14 gives as examples, by the length of the price range, and 0
\* for a record without one.
TierByLength(n) ==
    CASE n \in {0, 1, 2} -> 0
      [] n = 4 -> 1
      [] n = 8 -> 2
      [] OTHER -> n \div 3

\* A document with the given price tier in its header.
DocumentWithTier(shop, tier) ==
    "Shop name: " \o OrElse(shop, "label", "Unknown") \o ". "
    \o "Shop type: " \o OrElse(shop, "type", "Unknown") \o ". "
    \o "Shop location: " \o OrElse(shop, "location", "Unknown") \o ". "
    \o "Shop rating: "
    \o (IF "rating" \in DOMAIN shop THEN PyStr(shop["rating"]) ELSE "0") \o ". "
    \o "Shop price_range: " \o ToString(tier) \o ". "
    \o "Shop short description: " \o OrElse(shop, "short_description", "") \o ". \n\n"
    \o "The following are the signature dishes. \n" \o signature_dishes(shop) \o "\n"
    \o "The following are the sampled reviews. \n" \o review_contents(shop)

\* C14: the price tier in every built document is the floor of the price
\* range's length divided by 3, and 0 when the price range is empty or
\* missing; over the price ranges of the records the tier is a natural
\* number that does not decrease when the length grows.
C14_PriceTierIsFloorOfThird ==
    /\ \A a \in PriceRangesRead :
          /\ price_tier(a) \in Nat
          /\ price_tier(a) = TierByLength(Len(a))
          /\ 3 * price_tier(a) <= Len(a) /\ Len(a) < 3 * price_tier(a) + 3
          /\ \A b \in PriceRangesRead : Len(a) <= Len(b) => price_tier(a) <= price_tier(b)
    /\ IndexBuilt =>
          \A i \in 1..Len(DocumentsBuilt) :
              LET shop == Flatten(DatabaseRead)[i].shop
              IN DocumentsBuilt[i].page_content =
                    DocumentWithTier(shop,
                        IF "price_range" \in DOMAIN shop
                        THEN TierByLength(Len(shop["price_range"])) ELSE 0)

\* A document was built from a record whose price range has length 8.
C14_Witness ==
    /\ IndexBuilt
    /\ rag_result.file_exists
    /\ Len(DocumentsBuilt) = 1
    /\ "price_range" \in DOMAIN rag_db[1].shops[1]
    /\ Len(rag_db[1].shops[1]["price_range"]) = 8
    /\ DocumentsBuilt[1].page_content =
          DocumentWithTier(rag_db[1].shops[1], 2)

\* C15: in the server as main.py wires it, after startup retriever_tool and
\* rag_retriever are None whatever the keys, the database file and the
\* embedding service are: the RAG branch was skipped (no usable key) or
\* setup_rag raised; no request's task list has the retrieval task and no
\* run has more than 3 stages.
C15_RetrieverNeverAvailable ==
    phase # "boot" =>
        /\ retriever_tool = NoTool
        /\ rag_retriever = NoTool
        /\ startup_log.rag \in {"skipped", "raised"}
        /\ startup_log.rag = "raised" <=> startup_log.llm = "ran"
        /\ \A r \in Requests :
              /\ ~HasTask(req[r].tasks, "coarse_RAG_match_task")
              /\ "coarse_RAG_matcher" \notin Elems(req[r].agents)
              /\ Len(req[r].tasks) <= 3
              /\ Len(req[r].log) <= 3

\* With both keys configured a run of three stages has completed.
C15_Witness ==
    /\ phase = "serving"
    /\ startup_log.rag = "raised"
    /\ search_tool # None
    /\ \E r \in Requests :
          /\ req[r].pc = "done"
          /\ Len(req[r].log) = 3
          /\ Names(req[r].tasks) = <<"user_profile_task", "food_trend_task",
                                     "restaurant_recommendation_task">>

\* The request has passed the 503 guard of recommend().
PastGuard(q) == q.pc # "idle" /\ q.response.status # 503

\* C16: load_default_history() does not raise, and returns the empty list
\* when a data file is missing or a loading step fails; every request with
\* the LLM present gets its crew built, whatever the data files are; the
\* visit history passed to its run is a list: the request's own history only
\* when that is non-empty, otherwise what load_default_history() returned;
\* and a run ends in an error only because a stage failed.
C16_DefaultHistoryNeverAborts ==
    /\ ~load_default_history(data_files).raised
    /\ data_files # ReadableFiles => load_default_history(data_files).records = <<>>
    /\ \A r \in Requests :
          (llm # None /\ req[r].pc # "idle") =>
              LET q == req[r]
              IN /\ PastGuard(q)
                 /\ CrewBuilt(q)
                 /\ q.visit_history \in {<<>>, OwnHistory, DefaultHistory}
                 /\ ~q.default_loaded =>
                       /\ q.visit_history # <<>>
                       /\ List(q.visit_history) \in RequestHistories
                 /\ q.default_loaded =>
                       q.visit_history = IF data_files = ReadableFiles
                                         THEN DefaultHistory ELSE <<>>
                 /\ q.pc = "error" => (q.log # <<>> /\ ~q.log[Len(q.log)].ok)

\* A run on the empty list, the csv files being there but unreadable, has
\* completed.
C16_Witness ==
    /\ data_files = [exist |-> TRUE, readable |-> FALSE]
    /\ \E r \in Requests :
          /\ req[r].pc = "done"
          /\ req[r].default_loaded
          /\ req[r].visit_history = <<>>
          /\ req[r].response.status = 200

====
